---- MODULE Spec2Model ----
(***************************************************************************)
(* Model of src/server.js: the HTTP bridge to the SideSwap Manager.        *)
(* The file holds two variants of the bridge.  Variant 1 (lines 1-221)     *)
(* correlates requests with a counter (sendWebSocketRequest); variant 2    *)
(* (lines 223-674) adds exponential reconnect backoff, a heartbeat, a      *)
(* retrying sender and a cleanup sweep (sendMessage and friends).          *)
(* Every action is one macrotask of the Node.js event loop: an event       *)
(* handler or a timer callback run to completion, together with the        *)
(* promise reactions (the await continuations) it triggers.                *)
(***************************************************************************)
EXTENDS Integers, Sequences, FiniteSets, TLC

VARIABLES
    variant,            \* which variant of the bridge runs: 1 or 2
    wsUrlValid,         \* whether new WebSocket(url) accepts the configured URL
    retries,            \* the number of attempts sendMessageWithRetry is given
    ws,                 \* wsConnection / ws: index of the current WebSocket, 0 = null
    readyState,         \* readyState of every WebSocket object created so far
    isConnected,        \* the isConnected flag
    reconnectAttempts,  \* the reconnectAttempts counter
    reconnectTimers,    \* armed reconnect setTimeouts: sequence of [attempt, delay]
    totalConnections,   \* connectionStats.totalConnections
    heartbeats,         \* connections whose open handler started a heartbeat interval
    pongTimeouts,       \* per heartbeat interval: the connection its armed pong timeout pinged, 0 = none
    pendingRequests,    \* the Map: correlation id -> index of the promise it settles
    requestId,          \* variant 1: the requestId counter
    uuidCount,          \* variant 2: number of uuids drawn from uuidv4()
    requests,           \* every promise created by a submission, with its settle calls
    timeoutArmed,       \* promises whose request timeout is armed
    calls,              \* sendMessageWithRetry invocations
    termBy,             \* history, per closing connection: the pinged connection whose pong
                        \* timeout terminated it, 0 = none; forgotten once it has closed
    gaveUp,             \* history: number of submissions made before scheduleReconnect
                        \* returned at the ceiling, NotYet while it has not
    lastSweep           \* history: the Date.now() the latest cleanup sweep read, measured
                        \* from the storing of the youngest entry; 0 if none ran since

vars == <<variant, wsUrlValid, retries, lastSweep, ws, readyState, isConnected, reconnectAttempts,
          reconnectTimers, totalConnections, heartbeats, pongTimeouts,
          pendingRequests, requestId, uuidCount, requests, timeoutArmed, calls,
          termBy, gaveUp>>

----------------------------------------------------------------------------
(* Bounds of the model *)

MaxConns == 2
MaxRequests == 2

(* Program constants *)

maxReconnectAttempts == 5
reconnectDelay == 5000
QUOTE_RETRIES == 3
RECONNECT_INTERVAL == 5000
MAX_RECONNECT_ATTEMPTS == 10
REQUEST_CLEANUP_THRESHOLD == 300000
HEARTBEAT_INTERVAL == 15000
PONG_TIMEOUT == 7000

----------------------------------------------------------------------------
(* Values *)

Conns == 1..MaxConns

\* A parsed inbound frame {id, result?, error?: {code, message}}; id 0 stands
\* for an absent (falsy) id.
NoReply == [id |-> 0, result |-> "", hasError |-> FALSE, code |-> 0, message |-> ""]

\* Replies with a result and replies with an error object.
Replies(ids) ==
    { [id |-> i, result |-> "quote", hasError |-> FALSE, code |-> 0, message |-> ""] : i \in ids }
    \cup { [id |-> i, result |-> "", hasError |-> TRUE, code |-> 7, message |-> "denied"] : i \in ids }

\* Variant 1 also tells an error object without message apart.
Replies1(ids) ==
    Replies(ids)
    \cup { [id |-> i, result |-> "", hasError |-> TRUE, code |-> 7, message |-> ""] : i \in ids }

\* What a promise is settled with.
Resolved(data) == [kind |-> "resolved", error |-> "", data |-> data]
Rejected(text) == [kind |-> "rejected", error |-> text, data |-> NoReply]

\* The result of a sendMessageWithRetry call that has not returned or thrown.
NoResult == [kind |-> "none", error |-> "", data |-> NoReply]

NotConnectedV1 == "Nao conectado ao SideSwap Manager"
TimeoutV1 == "Timeout na requisicao"
DefaultUpstreamV1 == "Erro do SideSwap"
NotConnectedV2 == "WebSocket nao esta conectado"
TimeoutV2 == "Timeout da requisicao"
ConnectionLostV2 == "Conexao WebSocket perdida"
SendFailureV2 == "send failed"


----------------------------------------------------------------------------
(* Helpers on the state *)

Has(pr, id) == id \in DOMAIN pr
MapSet(pr, id, r) == [x \in DOMAIN pr \cup {id} |-> IF x = id THEN r ELSE pr[x]]
MapDelete(pr, id) == [x \in DOMAIN pr \ {id} |-> pr[x]]
EmptyMap == [x \in {} |-> 0]
Range(f) == { f[x] : x \in DOMAIN f }

\* Calling the resolve or reject function of promise r: the call is recorded;
\* only the first call decides the promise.
Settle(reqs, r, outcome) == [reqs EXCEPT ![r].settles = Append(@, outcome)]
SettleAll(reqs, rs, outcome) ==
    [r \in DOMAIN reqs |->
        IF r \in rs THEN [reqs[r] EXCEPT !.settles = Append(@, outcome)] ELSE reqs[r]]

IsSettled(req) == req.settles # <<>>
Outcome(req) == req.settles[1]

RECURSIVE Pow(_, _)
Pow(b, e) == IF e <= 0 THEN 1 ELSE b * Pow(b, e - 1)

RemoveAt(s, i) == [j \in 1..(Len(s) - 1) |-> IF j < i THEN s[j] ELSE s[j + 1]]

\* The reading of the latest sweep once pendingRequests went from pr to pr2:
\* it is void when an entry was stored or none is left.
SinceYoungest(reading, pr, pr2) ==
    IF pr2 = EmptyMap \/ \E id \in DOMAIN pr2 : ~Has(pr, id) THEN 0 ELSE reading

----------------------------------------------------------------------------
(* Variant 2: reconnect scheduling (scheduleReconnect, connectWebSocket) *)

ReconnectDelayOffByOne(k) == RECONNECT_INTERVAL * Pow(2, k)

\* const delay = RECONNECT_INTERVAL * Math.pow(2, reconnectAttempts - 1)
ReconnectDelay(k) == RECONNECT_INTERVAL * Pow(2, k - 1)

\* scheduleReconnect gives up at the ceiling; otherwise it counts the attempt
\* and arms one timer that calls connectWebSocket.
ScheduleAttempts(a) == IF a >= MAX_RECONNECT_ATTEMPTS THEN a ELSE a + 1

ScheduleTimersNoCeiling(timers, a) ==
    Append(timers, [attempt |-> a + 1, delay |-> ReconnectDelay(a + 1)])

ScheduleTimers(timers, a) ==
    IF a >= MAX_RECONNECT_ATTEMPTS
    THEN timers
    ELSE Append(timers, [attempt |-> a + 1, delay |-> ReconnectDelay(a + 1)])

\* The early return of scheduleReconnect, recorded with the number of
\* submissions made so far.
NotYet == -1
ScheduleGaveUp(g, a, submitted) == IF a >= MAX_RECONNECT_ATTEMPTS THEN submitted ELSE g

\* connectWebSocket run with `timers` armed: new WebSocket(wsUrl) either
\* yields a connecting socket that becomes ws, or throws and the catch block
\* calls scheduleReconnect (ws keeps its old value).
ConnectWebSocket(timers) ==
    IF wsUrlValid
    THEN /\ Len(readyState) < MaxConns
         /\ readyState' = Append(readyState, "CONNECTING")
         /\ ws' = Len(readyState) + 1
         /\ reconnectTimers' = timers
         /\ UNCHANGED <<reconnectAttempts, gaveUp>>
    ELSE /\ reconnectAttempts' = ScheduleAttempts(reconnectAttempts)
         /\ reconnectTimers' = ScheduleTimers(timers, reconnectAttempts)
         /\ gaveUp' = ScheduleGaveUp(gaveUp, reconnectAttempts, Len(requests))
         /\ UNCHANGED <<ws, readyState>>

\* The await in sendMessageWithRetry: a call waiting on a promise that has been
\* settled returns its value, throws after the last attempt, or starts the
\* delay before the next attempt.
LastAttemptNever(call) == FALSE

\* if (attempt === retries)
LastAttempt(call) == call.attempt = retries

ResumeCall(call, reqs) ==
    IF call.pc = "await" /\ IsSettled(reqs[call.req])
    THEN IF Outcome(reqs[call.req]).kind = "resolved"
         THEN [call EXCEPT !.pc = "returned", !.result = Outcome(reqs[call.req])]
         ELSE IF LastAttempt(call)
              THEN [call EXCEPT !.pc = "threw", !.result = Outcome(reqs[call.req])]
              ELSE [call EXCEPT !.pc = "delay"]
    ELSE call

ResumeCalls(cs, reqs) == [k \in DOMAIN cs |-> ResumeCall(cs[k], reqs)]

----------------------------------------------------------------------------
(* Variant 2: the handlers registered by connectWebSocket *)

AttemptsKeptOnOpen(a) == a

\* reconnectAttempts = 0 in the open handler
AttemptsAfterOpen(a) == 0

\* ws.on('open')
OpenEvent(c) ==
    /\ variant = 2
    /\ c \in DOMAIN readyState /\ readyState[c] = "CONNECTING"
    /\ readyState' = [readyState EXCEPT ![c] = "OPEN"]
    /\ isConnected' = TRUE
    /\ reconnectAttempts' = AttemptsAfterOpen(reconnectAttempts)
    /\ totalConnections' = totalConnections + 1
    /\ heartbeats' = heartbeats \cup {c}
    /\ UNCHANGED <<variant, wsUrlValid, retries, lastSweep, ws, reconnectTimers, pongTimeouts, pendingRequests,
                   requestId, uuidCount, requests, timeoutArmed, calls, termBy, gaveUp>>

\* The resolve and reject stored in the Map clear the request's timeout.
ClearTimeouts(armed, rs) == armed \ rs

\* The value the message handler resolves the caller with.
MessageValue(m) == Resolved(m)

MessageNoDelete(pr, id) == pr

\* The entry the message handler removes.
MessageDelete(pr, id) == MapDelete(pr, id)

\* ws.send(JSON.stringify(message)) returned for request r: the message
\* left on the socket.
Transmitted(r) ==
    /\ r \in DOMAIN requests /\ requests[r].stored
    /\ requests[r].settles # <<Rejected(SendFailureV2)>>

\* Whether frame m, arriving on connection c, can be the upstream's reply to
\* transmission re: ws.send put that request on connection c with m's id.
\* While the first connection is the only one there has been, every
\* transmission so far went out on it.  re = 0 leaves the frame without a
\* transmission it is attributed to.
Answers(m, c, re) ==
    \/ re = 0
    \/ /\ Len(readyState) = 1 /\ c = 1
       /\ Transmitted(re)
       /\ requests[re].id = m.id

\* ws.on('message') with a frame that parses.  `re` is the transmission the
\* upstream is answering (0: not attributed); the frame carries only the id,
\* so the handler cannot see it.
MessageEvent(c, m, re) ==
    /\ variant = 2
    /\ c \in DOMAIN readyState /\ readyState[c] = "OPEN"
    /\ Answers(m, c, re)
    /\ IF m.id # 0 /\ Has(pendingRequests, m.id)
       THEN LET r == pendingRequests[m.id] IN
            /\ pendingRequests' = MessageDelete(pendingRequests, m.id)
            /\ timeoutArmed' = ClearTimeouts(timeoutArmed, {r})
            /\ requests' = Settle(requests, r, MessageValue(m))
       ELSE UNCHANGED <<pendingRequests, timeoutArmed, requests>>
    /\ calls' = ResumeCalls(calls, requests')
    /\ lastSweep' = SinceYoungest(lastSweep, pendingRequests, pendingRequests')
    /\ UNCHANGED <<variant, wsUrlValid, retries, ws, readyState, isConnected, reconnectAttempts,
                   reconnectTimers, totalConnections, heartbeats, pongTimeouts,
                   requestId, uuidCount, termBy, gaveUp>>

ParseErrorCloses(state) == "CLOSING"

\* The socket after the catch block of the message handler: it only logs.
AfterParseError(state) == state

\* ws.on('message') with a frame JSON.parse rejects: the catch block logs it.
MalformedFrame(c) ==
    /\ variant = 2
    /\ c \in DOMAIN readyState /\ readyState[c] = "OPEN"
    /\ readyState' = [readyState EXCEPT ![c] = AfterParseError(@)]
    /\ UNCHANGED <<variant, wsUrlValid, retries, lastSweep, ws, isConnected, reconnectAttempts,
                   reconnectTimers, totalConnections, heartbeats, pongTimeouts,
                   pendingRequests, requestId, uuidCount, requests, timeoutArmed, calls,
                   termBy, gaveUp>>

CloseNoClear(pr) == pr

\* What the close handler leaves of the Map.
CloseClear(pr) == EmptyMap

\* The body of ws.on('close') for connection c.
CloseHandler(c) ==
    LET rs == Range(pendingRequests) IN
        /\ isConnected' = FALSE
        /\ requests' = SettleAll(requests, rs, Rejected(ConnectionLostV2))
        /\ timeoutArmed' = ClearTimeouts(timeoutArmed, rs)
        /\ pendingRequests' = CloseClear(pendingRequests)
        /\ reconnectAttempts' = ScheduleAttempts(reconnectAttempts)
        /\ reconnectTimers' = ScheduleTimers(reconnectTimers, reconnectAttempts)
        /\ gaveUp' = ScheduleGaveUp(gaveUp, reconnectAttempts, Len(requests))
        /\ termBy' = [termBy EXCEPT ![c] = 0]
        /\ calls' = ResumeCalls(calls, requests')

\* The socket of an open or closing connection is gone: 'close' is emitted.
CloseEvent(c) ==
    /\ variant = 2
    /\ c \in DOMAIN readyState /\ readyState[c] \in {"OPEN", "CLOSING"}
    /\ readyState' = [readyState EXCEPT ![c] = "CLOSED"]
    /\ CloseHandler(c)
    /\ lastSweep' = SinceYoungest(lastSweep, pendingRequests, pendingRequests')
    /\ UNCHANGED <<variant, wsUrlValid, retries, ws, totalConnections, heartbeats, pongTimeouts,
                   requestId, uuidCount>>

\* The handshake fails: 'error' and 'close' are emitted back to back.  The
\* error handler only clears isConnected, which the close handler does too.
HandshakeFail(c) ==
    /\ variant = 2
    /\ c \in DOMAIN readyState /\ readyState[c] = "CONNECTING"
    /\ readyState' = [readyState EXCEPT ![c] = "CLOSED"]
    /\ CloseHandler(c)
    /\ lastSweep' = SinceYoungest(lastSweep, pendingRequests, pendingRequests')
    /\ UNCHANGED <<variant, wsUrlValid, retries, ws, totalConnections, heartbeats, pongTimeouts,
                   requestId, uuidCount>>

ErrorSchedules(timers, a) == ScheduleTimers(timers, a)

\* What ws.on('error') arms: nothing, reconnecting is left to the close handler.
ErrorTimers(timers, a) == timers

\* ws.on('error') on an open connection: the socket is being torn down.
ErrorEvent(c) ==
    /\ variant = 2
    /\ c \in DOMAIN readyState /\ readyState[c] = "OPEN"
    /\ readyState' = [readyState EXCEPT ![c] = "CLOSING"]
    /\ isConnected' = FALSE
    /\ reconnectTimers' = ErrorTimers(reconnectTimers, reconnectAttempts)
    /\ UNCHANGED <<variant, wsUrlValid, retries, lastSweep, ws, reconnectAttempts, totalConnections,
                   heartbeats, pongTimeouts, pendingRequests, requestId, uuidCount,
                   requests, timeoutArmed, calls, termBy, gaveUp>>

\* The timer armed by scheduleReconnect fires and calls connectWebSocket.
ReconnectTimerFire(i) ==
    /\ variant = 2
    /\ i \in DOMAIN reconnectTimers
    /\ ConnectWebSocket(RemoveAt(reconnectTimers, i))
    /\ UNCHANGED <<variant, wsUrlValid, retries, lastSweep, isConnected, totalConnections, heartbeats,
                   pongTimeouts, pendingRequests, requestId, uuidCount, requests,
                   timeoutArmed, calls, termBy>>

----------------------------------------------------------------------------
(* Variant 2: heartbeat (startHeartbeat) *)

\* A tick of the heartbeat interval started by connection h: ping the current
\* socket if it is open and arm a pong timeout.  The interval is longer than
\* the pong timeout, so the timeout of the previous tick has fired by now.
HeartbeatTick(h) ==
    /\ variant = 2
    /\ h \in heartbeats
    /\ ws # 0 /\ readyState[ws] = "OPEN"
    /\ PONG_TIMEOUT < HEARTBEAT_INTERVAL /\ pongTimeouts[h] = 0
    /\ pongTimeouts' = [pongTimeouts EXCEPT ![h] = ws]
    /\ UNCHANGED <<variant, wsUrlValid, retries, lastSweep, ws, readyState, isConnected, reconnectAttempts,
                   reconnectTimers, totalConnections, heartbeats, pendingRequests,
                   requestId, uuidCount, requests, timeoutArmed, calls, termBy, gaveUp>>

\* ws.on('pong'): the pong answering the ping of interval h arrives on the
\* connection that was pinged; the handler logs it and keeps no record of it.
PongEvent(h) ==
    /\ variant = 2
    /\ h \in Conns /\ pongTimeouts[h] # 0
    /\ readyState[pongTimeouts[h]] = "OPEN"
    /\ UNCHANGED <<variant, wsUrlValid, retries, lastSweep, ws, readyState, isConnected,
                   reconnectAttempts, reconnectTimers, totalConnections, heartbeats,
                   pongTimeouts, pendingRequests, requestId, uuidCount, requests,
                   timeoutArmed, calls, termBy, gaveUp>>

\* ws.terminate() on a socket in state s.
Terminate(s) == IF s = "CLOSED" THEN "CLOSED" ELSE "CLOSING"

\* The pong timeout armed by interval h fires: ws.terminate() on whatever ws
\* is now.  `answered` says whether the pong handler has run for this ping in
\* the meantime (the pinged connection was open when the ping left, so the
\* pong may have come at once); the handler left nothing for the callback to
\* see.
PongTimeoutFire(h, answered) ==
    /\ variant = 2
    /\ h \in Conns /\ pongTimeouts[h] # 0
    /\ pongTimeouts' = [pongTimeouts EXCEPT ![h] = 0]
    /\ readyState' = [readyState EXCEPT ![ws] = Terminate(@)]
    /\ termBy' = IF readyState[ws] \in {"CONNECTING", "OPEN"}
                 THEN [termBy EXCEPT ![ws] = pongTimeouts[h]] ELSE termBy
    /\ UNCHANGED <<variant, wsUrlValid, retries, lastSweep, ws, isConnected, reconnectAttempts,
                   reconnectTimers, totalConnections, heartbeats, pendingRequests,
                   requestId, uuidCount, requests, timeoutArmed, calls, gaveUp>>

----------------------------------------------------------------------------
(* Variant 2: submissions (sendMessage, sendMessageWithRetry) *)

NotOpenByFlag(w, rs, connected) == ~connected

\* The guard of sendMessage: !ws || ws.readyState !== WebSocket.OPEN
NotOpen(w, rs, connected) == w = 0 \/ rs[w] # "OPEN"

\* uuidv4(): a token no earlier call returned, the n-th call returning n.
Uuidv4(n) == n

\* message.id || uuidv4()
MessageId(msgId, drawn) == IF msgId # 0 THEN msgId ELSE Uuidv4(drawn + 1)

TimeoutGuardInverted(pr, id) == ~Has(pr, id)

\* The timeout callback's guard: pendingRequests.has(id)
TimeoutGuard(pr, id) == Has(pr, id)

\* sendMessage(message) run by call k as promise r.  `throws` says whether
\* ws.send raises.
SendMessage(k, cs, throws) ==
    LET r == Len(requests) + 1 IN
    /\ r <= MaxRequests
    /\ IF NotOpen(ws, readyState, isConnected)
       THEN /\ ~throws
            /\ requests' = Append(requests,
                   [id |-> 0, call |-> k, stored |-> FALSE,
                    settles |-> <<Rejected(NotConnectedV2)>>])
            /\ calls' = ResumeCalls([cs EXCEPT ![k].req = r, ![k].pc = "await"], requests')
            /\ UNCHANGED <<pendingRequests, timeoutArmed, uuidCount>>
       ELSE LET id == MessageId(cs[k].msgId, uuidCount)
                stored == MapSet(pendingRequests, id, r)
            IN  /\ uuidCount' = IF cs[k].msgId # 0 THEN uuidCount ELSE uuidCount + 1
                /\ pendingRequests' = IF throws THEN MapDelete(stored, id) ELSE stored
                /\ timeoutArmed' = IF throws THEN timeoutArmed ELSE timeoutArmed \cup {r}
                /\ requests' = Append(requests,
                       [id |-> id, call |-> k, stored |-> TRUE,
                        settles |-> IF throws THEN <<Rejected(SendFailureV2)>> ELSE <<>>])
                /\ calls' = ResumeCalls(
                       [cs EXCEPT ![k].msgId = id, ![k].req = r, ![k].pc = "await"], requests')

\* POST /api/quote: a new message without id goes to sendMessageWithRetry,
\* whose first loop iteration calls sendMessage at once.
StartCall(throws) ==
    /\ variant = 2
    /\ SendMessage(Len(calls) + 1,
                   Append(calls, [msgId |-> 0, attempt |-> 1, pc |-> "start", req |-> 0,
                                  result |-> NoResult]),
                   throws)
    /\ lastSweep' = SinceYoungest(lastSweep, pendingRequests, pendingRequests')
    /\ UNCHANGED <<variant, wsUrlValid, retries, ws, readyState, isConnected, reconnectAttempts,
                   reconnectTimers, totalConnections, heartbeats, pongTimeouts,
                   requestId, termBy, gaveUp>>

\* The retry delay of call k is over: the next loop iteration calls
\* sendMessage with the same message object.
RetryTimerFire(k, throws) ==
    /\ variant = 2
    /\ k \in DOMAIN calls /\ calls[k].pc = "delay"
    /\ SendMessage(k, [calls EXCEPT ![k].attempt = @ + 1], throws)
    /\ lastSweep' = SinceYoungest(lastSweep, pendingRequests, pendingRequests')
    /\ UNCHANGED <<variant, wsUrlValid, retries, ws, readyState, isConnected, reconnectAttempts,
                   reconnectTimers, totalConnections, heartbeats, pongTimeouts,
                   requestId, termBy, gaveUp>>

TimeoutKeepsEntry(pr, id) == pr

\* pendingRequests.delete(id) in the timeout callback
TimeoutDelete(pr, id) == MapDelete(pr, id)

\* The request timeout of promise r fires.
TimeoutFire(r) ==
    /\ variant = 2
    /\ r \in timeoutArmed
    /\ timeoutArmed' = timeoutArmed \ {r}
    /\ IF TimeoutGuard(pendingRequests, requests[r].id)
       THEN /\ pendingRequests' = TimeoutDelete(pendingRequests, requests[r].id)
            /\ requests' = Settle(requests, r, Rejected(TimeoutV2))
       ELSE UNCHANGED <<pendingRequests, requests>>
    /\ calls' = ResumeCalls(calls, requests')
    /\ lastSweep' = SinceYoungest(lastSweep, pendingRequests, pendingRequests')
    /\ UNCHANGED <<variant, wsUrlValid, retries, ws, readyState, isConnected, reconnectAttempts,
                   reconnectTimers, totalConnections, heartbeats, pongTimeouts,
                   requestId, uuidCount, termBy, gaveUp>>

StaleAlways(now, r) == TRUE

\* now - request.timestamp > REQUEST_CLEANUP_THRESHOLD.  The entries hold
\* {resolve, reject} only: request.timestamp is undefined, the difference is
\* NaN and the comparison is false.
EntryTimestamp(r) == [defined |-> FALSE, value |-> 0]

Stale(now, r) ==
    /\ EntryTimestamp(r).defined
    /\ now - EntryTimestamp(r).value > REQUEST_CLEANUP_THRESHOLD

\* The cleanup setInterval: delete the stale entries.
Sweep(now) ==
    /\ variant = 2
    /\ pendingRequests' = [id \in { x \in DOMAIN pendingRequests :
                                      ~Stale(now, pendingRequests[x]) } |-> pendingRequests[id]]
    /\ lastSweep' = SinceYoungest(now, pendingRequests, pendingRequests')
    /\ UNCHANGED <<variant, wsUrlValid, retries, ws, readyState, isConnected, reconnectAttempts,
                   reconnectTimers, totalConnections, heartbeats, pongTimeouts,
                   requestId, uuidCount, requests, timeoutArmed, calls, termBy, gaveUp>>

----------------------------------------------------------------------------
(* Variant 1: connectToSideSwap and sendWebSocketRequest *)

\* wsConnection.on('open')
OpenEvent1(c) ==
    /\ variant = 1
    /\ c \in DOMAIN readyState /\ readyState[c] = "CONNECTING"
    /\ readyState' = [readyState EXCEPT ![c] = "OPEN"]
    /\ isConnected' = TRUE
    /\ reconnectAttempts' = 0
    /\ UNCHANGED <<variant, wsUrlValid, retries, lastSweep, ws, reconnectTimers, totalConnections, heartbeats,
                   pongTimeouts, pendingRequests, requestId, uuidCount, requests,
                   timeoutArmed, calls, termBy, gaveUp>>

\* What the message handler settles the caller with: response.result, or an
\* Error made of response.error.message || 'Erro do SideSwap'.
MessageValue1(m) ==
    IF m.hasError
    THEN Rejected(IF m.message # "" THEN m.message ELSE DefaultUpstreamV1)
    ELSE Resolved([NoReply EXCEPT !.result = m.result])

\* wsConnection.on('message') with a frame that parses
MessageEvent1(c, m) ==
    /\ variant = 1
    /\ c \in DOMAIN readyState /\ readyState[c] = "OPEN"
    /\ IF m.id # 0 /\ Has(pendingRequests, m.id)
       THEN LET r == pendingRequests[m.id] IN
            /\ pendingRequests' = MapDelete(pendingRequests, m.id)
            /\ requests' = Settle(requests, r, MessageValue1(m))
       ELSE UNCHANGED <<pendingRequests, requests>>
    /\ UNCHANGED <<variant, wsUrlValid, retries, lastSweep, ws, readyState, isConnected, reconnectAttempts,
                   reconnectTimers, totalConnections, heartbeats, pongTimeouts,
                   requestId, uuidCount, timeoutArmed, calls, termBy, gaveUp>>

\* wsConnection.on('message') with a frame JSON.parse rejects
MalformedFrame1(c) ==
    /\ variant = 1
    /\ c \in DOMAIN readyState /\ readyState[c] = "OPEN"
    /\ UNCHANGED <<variant, wsUrlValid, retries, lastSweep, ws, readyState, isConnected, reconnectAttempts,
                   reconnectTimers, totalConnections, heartbeats, pongTimeouts,
                   pendingRequests, requestId, uuidCount, requests, timeoutArmed, calls,
                   termBy, gaveUp>>

\* The body of wsConnection.on('close'): reconnect after reconnectDelay
\* unless maxReconnectAttempts is reached; pending requests are left alone.
CloseHandler1(c) ==
    /\ isConnected' = FALSE
    /\ IF reconnectAttempts < maxReconnectAttempts
       THEN /\ reconnectAttempts' = reconnectAttempts + 1
            /\ reconnectTimers' = Append(reconnectTimers,
                   [attempt |-> reconnectAttempts + 1, delay |-> reconnectDelay])
       ELSE UNCHANGED <<reconnectAttempts, reconnectTimers>>

CloseEvent1(c) ==
    /\ variant = 1
    /\ c \in DOMAIN readyState /\ readyState[c] \in {"OPEN", "CLOSING"}
    /\ readyState' = [readyState EXCEPT ![c] = "CLOSED"]
    /\ CloseHandler1(c)
    /\ UNCHANGED <<variant, wsUrlValid, retries, lastSweep, ws, totalConnections, heartbeats, pongTimeouts,
                   pendingRequests, requestId, uuidCount, requests, timeoutArmed, calls,
                   termBy, gaveUp>>

\* The handshake fails: 'error' then 'close'.
HandshakeFail1(c) ==
    /\ variant = 1
    /\ c \in DOMAIN readyState /\ readyState[c] = "CONNECTING"
    /\ readyState' = [readyState EXCEPT ![c] = "CLOSED"]
    /\ CloseHandler1(c)
    /\ UNCHANGED <<variant, wsUrlValid, retries, lastSweep, ws, totalConnections, heartbeats, pongTimeouts,
                   pendingRequests, requestId, uuidCount, requests, timeoutArmed, calls,
                   termBy, gaveUp>>

\* wsConnection.on('error') on an open connection
ErrorEvent1(c) ==
    /\ variant = 1
    /\ c \in DOMAIN readyState /\ readyState[c] = "OPEN"
    /\ readyState' = [readyState EXCEPT ![c] = "CLOSING"]
    /\ isConnected' = FALSE
    /\ UNCHANGED <<variant, wsUrlValid, retries, lastSweep, ws, reconnectAttempts, reconnectTimers,
                   totalConnections, heartbeats, pongTimeouts, pendingRequests, requestId,
                   uuidCount, requests, timeoutArmed, calls, termBy, gaveUp>>

\* setTimeout(connectToSideSwap, reconnectDelay) fires.
ReconnectTimerFire1(i) ==
    /\ variant = 1
    /\ i \in DOMAIN reconnectTimers
    /\ Len(readyState) < MaxConns
    /\ readyState' = Append(readyState, "CONNECTING")
    /\ ws' = Len(readyState) + 1
    /\ reconnectTimers' = RemoveAt(reconnectTimers, i)
    /\ UNCHANGED <<variant, wsUrlValid, retries, lastSweep, isConnected, reconnectAttempts, totalConnections,
                   heartbeats, pongTimeouts, pendingRequests, requestId, uuidCount,
                   requests, timeoutArmed, calls, termBy, gaveUp>>

\* The guard of sendWebSocketRequest: !isConnected || !wsConnection
NotConnected1(w, connected) == ~connected \/ w = 0

RequestIdStuck(n) == n

\* const id = requestId++ leaves the counter at
NextRequestId(n) == n + 1

\* sendWebSocketRequest(method, params)
SendWebSocketRequest ==
    LET r == Len(requests) + 1 IN
    /\ variant = 1
    /\ r <= MaxRequests
    /\ IF NotConnected1(ws, isConnected)
       THEN /\ requests' = Append(requests,
                   [id |-> 0, call |-> 0, stored |-> FALSE,
                    settles |-> <<Rejected(NotConnectedV1)>>])
            /\ UNCHANGED <<pendingRequests, timeoutArmed, requestId>>
       ELSE /\ requestId' = NextRequestId(requestId)
            /\ pendingRequests' = MapSet(pendingRequests, requestId, r)
            /\ timeoutArmed' = timeoutArmed \cup {r}
            /\ requests' = Append(requests,
                   [id |-> requestId, call |-> 0, stored |-> TRUE, settles |-> <<>>])
    /\ UNCHANGED <<variant, wsUrlValid, retries, lastSweep, ws, readyState, isConnected, reconnectAttempts,
                   reconnectTimers, totalConnections, heartbeats, pongTimeouts,
                   uuidCount, calls, termBy, gaveUp>>

\* The 30 s timeout of promise r fires; it is never cleared.
TimeoutFire1(r) ==
    /\ variant = 1
    /\ r \in timeoutArmed
    /\ timeoutArmed' = timeoutArmed \ {r}
    /\ IF Has(pendingRequests, requests[r].id)
       THEN /\ pendingRequests' = MapDelete(pendingRequests, requests[r].id)
            /\ requests' = Settle(requests, r, Rejected(TimeoutV1))
       ELSE UNCHANGED <<pendingRequests, requests>>
    /\ UNCHANGED <<variant, wsUrlValid, retries, lastSweep, ws, readyState, isConnected, reconnectAttempts,
                   reconnectTimers, totalConnections, heartbeats, pongTimeouts,
                   requestId, uuidCount, calls, termBy, gaveUp>>

----------------------------------------------------------------------------
(* The state once app.listen's callback has made the first connection attempt *)

Init ==
    /\ variant \in {1, 2}
    /\ wsUrlValid \in BOOLEAN
    /\ retries \in 1..QUOTE_RETRIES
    /\ variant = 1 => wsUrlValid /\ retries = QUOTE_RETRIES
    /\ ws = IF wsUrlValid THEN 1 ELSE 0
    /\ readyState = IF wsUrlValid THEN <<"CONNECTING">> ELSE <<>>
    /\ isConnected = FALSE
    /\ reconnectAttempts = IF wsUrlValid THEN 0 ELSE ScheduleAttempts(0)
    /\ reconnectTimers = IF wsUrlValid THEN <<>> ELSE ScheduleTimers(<<>>, 0)
    /\ totalConnections = 0
    /\ heartbeats = {}
    /\ pongTimeouts = [c \in Conns |-> 0]
    /\ pendingRequests = EmptyMap
    /\ requestId = 1
    /\ uuidCount = 0
    /\ requests = <<>>
    /\ timeoutArmed = {}
    /\ calls = <<>>
    /\ termBy = [c \in Conns |-> 0]
    /\ gaveUp = NotYet
    /\ lastSweep = 0

FrameIds == 0..MaxRequests

\* Values of Date.now() at a sweep, measured from the moment the youngest entry
\* of pendingRequests was stored: every entry is at least that old.
Nows == { 0, REQUEST_CLEANUP_THRESHOLD + 1 }

Next ==
    \/ \E c \in Conns : OpenEvent(c)
    \/ \E c \in Conns, m \in Replies(FrameIds), re \in 0..MaxRequests : MessageEvent(c, m, re)
    \/ \E c \in Conns : MalformedFrame(c)
    \/ \E c \in Conns : CloseEvent(c)
    \/ \E c \in Conns : HandshakeFail(c)
    \/ \E c \in Conns : ErrorEvent(c)
    \/ \E i \in 1..MaxConns : ReconnectTimerFire(i)
    \/ \E h \in Conns : HeartbeatTick(h)
    \/ \E h \in Conns, answered \in BOOLEAN : PongTimeoutFire(h, answered)
    \/ \E h \in Conns : PongEvent(h)
    \/ \E throws \in BOOLEAN : StartCall(throws)
    \/ \E k \in 1..MaxRequests, throws \in BOOLEAN : RetryTimerFire(k, throws)
    \/ \E r \in 1..MaxRequests : TimeoutFire(r)
    \/ \E now \in Nows : Sweep(now)
    \/ \E c \in Conns : OpenEvent1(c)
    \/ \E c \in Conns, m \in Replies1(FrameIds) : MessageEvent1(c, m)
    \/ \E c \in Conns : MalformedFrame1(c)
    \/ \E c \in Conns : CloseEvent1(c)
    \/ \E c \in Conns : HandshakeFail1(c)
    \/ \E c \in Conns : ErrorEvent1(c)
    \/ \E i \in 1..MaxConns : ReconnectTimerFire1(i)
    \/ SendWebSocketRequest
    \/ \E r \in 1..MaxRequests : TimeoutFire1(r)

Spec == Init /\ [][Next]_vars

\* Timers that are armed eventually fire.
FairSpec ==
    /\ Spec
    /\ WF_vars(\E r \in 1..MaxRequests : TimeoutFire(r))
    /\ WF_vars(\E r \in 1..MaxRequests : TimeoutFire1(r))

----------------------------------------------------------------------------
(* Properties *)

Live(c) == readyState[c] \in {"CONNECTING", "OPEN"}
Pending(r) == Has(pendingRequests, requests[r].id) /\ pendingRequests[requests[r].id] = r
SettlingEventsV2 ==
    { Rejected(TimeoutV2), Rejected(ConnectionLostV2), Rejected(SendFailureV2) }
    \cup { Resolved(m) : m \in Replies(FrameIds) }

\* C1: a request stored by sendMessage is settled by at most one of the
\* events (inbound message, timeout, close, send failure, sweep); once it has
\* left pendingRequests it has been settled exactly once, by one of them.
C1_SingleSettlement ==
    variant = 2 =>
        \A r \in DOMAIN requests :
            requests[r].stored =>
                /\ Len(requests[r].settles) <= 1
                /\ ~Pending(r) => Len(requests[r].settles) = 1
                /\ Len(requests[r].settles) = 1 => Outcome(requests[r]) \in SettlingEventsV2

C1_Witness ==
    /\ variant = 2
    /\ \E r1, r2 \in DOMAIN requests :
          /\ requests[r1].stored /\ requests[r2].stored
          /\ requests[r1].settles # <<>> /\ Outcome(requests[r1]).kind = "resolved"
          /\ requests[r2].settles = <<Rejected(TimeoutV2)>>

\* C2: no stored request stays pending for ever: whenever a request stored by
\* sendMessage is unsettled, a state follows in which every stored request is
\* settled, given that armed request timeouts eventually fire.  (From any
\* state a state without unsettled stored request is reached: such states
\* recur for ever.)
C2_EventuallySettled ==
    []<>(variant = 2 =>
            \A r \in DOMAIN requests : requests[r].stored => requests[r].settles # <<>>)

C2_Witness ==
    /\ variant = 2
    /\ \E r \in DOMAIN requests :
          /\ requests[r].stored /\ requests[r].settles = <<>>
          /\ r \in timeoutArmed /\ Pending(r)
          /\ readyState[ws] = "OPEN"

\* C3: the close handler of a connectWebSocket connection rejects every
\* pending request with the connection-lost error and leaves pendingRequests
\* empty.
C3_CloseDrainsAll ==
    [][\A c \in Conns :
          (CloseEvent(c) \/ HandshakeFail(c)) =>
              /\ DOMAIN pendingRequests' = {}
              /\ \A r \in Range(pendingRequests) :
                    requests'[r].settles = <<Rejected(ConnectionLostV2)>>]_vars

C3_Witness ==
    /\ variant = 2
    /\ ws = 1 /\ readyState[1] = "CLOSED"
    /\ DOMAIN pendingRequests = {}
    /\ \E r1, r2 \in DOMAIN requests :
          /\ r1 # r2
          /\ requests[r1].settles = <<Rejected(ConnectionLostV2)>>
          /\ requests[r2].settles = <<Rejected(ConnectionLostV2)>>

\* C4: no submission stores a request under an id that is still a key of
\* pendingRequests: an entry of the Map is never overwritten.
C4_NoIdCollision ==
    [][\A id \in DOMAIN pendingRequests :
          id \in DOMAIN pendingRequests' => pendingRequests'[id] = pendingRequests[id]]_vars

C4_Witness ==
    /\ variant = 2
    /\ \E r1, r2 \in DOMAIN requests :
          /\ r1 < r2
          /\ requests[r1].stored /\ requests[r2].stored
          /\ requests[r1].id = requests[r2].id
          /\ requests[r1].settles # <<>>
          /\ Pending(r2)

\* C5: a submission made while the bridge is not connected is rejected at
\* once with the not-connected error and leaves pendingRequests, the id
\* counters and every timer unchanged.
C5_NotConnectedRejects ==
    [][(/\ Len(requests') = Len(requests) + 1
        /\ IF variant = 2
           THEN ws = 0 \/ readyState[ws] # "OPEN"
           ELSE ~isConnected \/ ws = 0)
       => /\ requests'[Len(requests')].settles =
                 <<Rejected(IF variant = 2 THEN NotConnectedV2 ELSE NotConnectedV1)>>
          /\ ~requests'[Len(requests')].stored
          /\ UNCHANGED <<pendingRequests, requestId, uuidCount, timeoutArmed,
                         reconnectTimers, heartbeats, pongTimeouts>>]_vars

C5_Witness ==
    /\ variant = 2
    /\ ws # 0 /\ readyState[ws] = "CLOSING" /\ isConnected
    /\ requests # <<>>
    /\ ~requests[Len(requests)].stored
    /\ requests[Len(requests)].settles = <<Rejected(NotConnectedV2)>>

\* C6: when the request timeout of a request that is still unsettled fires,
\* the caller is rejected with the timeout error and the request's id is no
\* longer in pendingRequests.
C6_TimeoutRejects ==
    [][\A r \in 1..MaxRequests :
          (TimeoutFire(r) /\ requests[r].settles = <<>>) =>
              /\ requests'[r].settles = <<Rejected(TimeoutV2)>>
              /\ ~Has(pendingRequests', requests[r].id)]_vars

C6_Witness ==
    /\ variant = 2
    /\ \E r \in DOMAIN requests :
          /\ requests[r].settles = <<Rejected(TimeoutV2)>>
          /\ ~Has(pendingRequests, requests[r].id)
          /\ ws # 0 /\ readyState[ws] = "OPEN"

\* The payload of frame m as the caller should receive it: the whole message
\* in variant 2; in variant 1 the result, or the error object.
Delivered(m) ==
    IF variant = 2 THEN Resolved(m)
    ELSE IF m.hasError
         THEN [kind |-> "rejected", error |-> m.message, data |-> [m EXCEPT !.id = 0]]
         ELSE Resolved([m EXCEPT !.id = 0])

\* C7: an inbound message carrying the id of a pending request removes that
\* entry only and settles that request only, with the payload of the message
\* unchanged.
C7_MessageSettlesWithPayload ==
    [][\A c \in Conns, m \in Replies1(FrameIds) :
          (((\E re \in 0..MaxRequests : MessageEvent(c, m, re)) \/ MessageEvent1(c, m)) /\ m.id # 0 /\ Has(pendingRequests, m.id)) =>
              LET r == pendingRequests[m.id] IN
              /\ pendingRequests' = MapDelete(pendingRequests, m.id)
              /\ requests'[r].settles = <<Delivered(m)>>
              /\ \A q \in DOMAIN requests : q # r => requests'[q] = requests[q]]_vars

\* C8: at most one connection is connecting or open, at most one reconnect
\* timer is armed, and none is armed while a connection is connecting or open.
C8_SingleConnectionActivity ==
    variant = 2 =>
        /\ Cardinality({ c \in DOMAIN readyState : Live(c) }) <= 1
        /\ Len(reconnectTimers) <= 1
        /\ Len(reconnectTimers) = 1 => \A c \in DOMAIN readyState : ~Live(c)

C8_Witness ==
    /\ variant = 2
    /\ Len(readyState) = 2 /\ readyState[2] = "OPEN"
    /\ pongTimeouts[1] = 1

\* C9: an unanswered ping begins exactly one reconnect cycle: when the
\* connection terminated by the pong timeout of a ping closes, its close is
\* the only close, hence the only scheduleReconnect call, since that ping.
C9_OneReconnectCycle ==
    [][\A d \in Conns :
          (CloseEvent(d) /\ termBy[d] # 0) =>
              Cardinality({ c \in {termBy[d], d} : readyState'[c] = "CLOSED" }) = 1]_vars

\* C10: the reconnect armed as attempt k waits RECONNECT_INTERVAL * 2^(k-1).
C10_BackoffDelay ==
    variant = 2 =>
        \A i \in DOMAIN reconnectTimers :
            LET k == reconnectTimers[i].attempt IN
            /\ k = reconnectAttempts
            /\ k \in 1..MAX_RECONNECT_ATTEMPTS
            /\ reconnectTimers[i].delay = RECONNECT_INTERVAL * 2^(k - 1)

C10_Witness ==
    /\ variant = 2
    /\ \E i \in DOMAIN reconnectTimers :
          /\ reconnectTimers[i].attempt = MAX_RECONNECT_ATTEMPTS
          /\ reconnectTimers[i].delay = 2560000

AttemptsOf(k) == { r \in DOMAIN requests : requests[r].call = k }

\* C13: sendMessageWithRetry calls sendMessage at most `retries` times, one
\* attempt after the failure of the previous one; it returns the value of the
\* first attempt that is resolved and attempts nothing more, and after
\* `retries` failures it throws the error of the last attempt unchanged.
C13_RetryContract ==
    variant = 2 =>
        \A k \in DOMAIN calls :
            LET c == calls[k]
                last == requests[c.req]
            IN  /\ Cardinality(AttemptsOf(k)) = c.attempt
                /\ c.attempt <= retries
                /\ c.req \in AttemptsOf(k)
                /\ \A r \in AttemptsOf(k) :
                      r # c.req => r < c.req /\ IsSettled(requests[r])
                                           /\ Outcome(requests[r]).kind = "rejected"
                /\ c.pc \in {"await", "delay", "returned", "threw"}
                /\ c.pc = "await" => ~IsSettled(last) /\ c.result = NoResult
                /\ c.pc = "delay" =>
                      /\ c.attempt < retries /\ c.result = NoResult
                      /\ IsSettled(last) /\ Outcome(last).kind = "rejected"
                /\ c.pc = "returned" =>
                      /\ IsSettled(last) /\ Outcome(last).kind = "resolved"
                      /\ c.result = Outcome(last)
                /\ c.pc = "threw" =>
                      /\ c.attempt = retries
                      /\ IsSettled(last) /\ Outcome(last).kind = "rejected"
                      /\ c.result = Outcome(last)

C13_Witness ==
    /\ variant = 2 /\ retries = 2
    /\ \E k \in DOMAIN calls :
          /\ calls[k].pc = "threw" /\ calls[k].attempt = 2
          /\ calls[k].result = Rejected(TimeoutV2)
          /\ \E r \in AttemptsOf(k) : requests[r].settles = <<Rejected(ConnectionLostV2)>>

\* C12: a cleanup sweep that runs when the entries of pendingRequests are
\* older than REQUEST_CLEANUP_THRESHOLD removes every one of them and rejects
\* its request.
C12_SweepRemovesStale ==
    [][\A now \in Nows :
          (Sweep(now) /\ now > REQUEST_CLEANUP_THRESHOLD) =>
              \A id \in DOMAIN pendingRequests :
                  /\ ~Has(pendingRequests', id)
                  /\ IsSettled(requests'[pendingRequests[id]])
                  /\ Outcome(requests'[pendingRequests[id]]).kind = "rejected"]_vars

\* C14: sendMessageWithRetry starts another attempt only after an attempt
\* that failed with the not-connected, send-failure or timeout error.
C14_RetriesOnlyTransient ==
    [][\A k \in 1..MaxRequests, throws \in BOOLEAN :
          RetryTimerFire(k, throws) =>
              Outcome(requests[calls[k].req]) \in
                  { Rejected(NotConnectedV2), Rejected(SendFailureV2), Rejected(TimeoutV2) }]_vars

\* A frame with no id, or an id that is not a key of pendingRequests.
Unmatched(m) == ~(m.id # 0 /\ Has(pendingRequests, m.id))

\* The frames drawn for the message handlers.
Frames == Replies(FrameIds)

\* C15: a frame that does not parse, or whose id matches no pending request,
\* is dropped: pendingRequests, the connection state, reconnectAttempts, every
\* timer and every promise are as they were.  (The handler does not see
\* which transmission a frame answers, so a step of MessageEvent(c, m, re)
\* is a step of MessageEvent(c, m, 0) for every re.)
C15_FrameDropped ==
    [][\A c \in DOMAIN readyState :
          (/\ variant = 2 /\ readyState[c] = "OPEN"
           /\ \/ MalformedFrame(c)
              \/ \E m \in Frames : Unmatched(m) /\ MessageEvent(c, m, 0))
          => UNCHANGED <<pendingRequests, isConnected, ws, readyState, reconnectAttempts,
                         reconnectTimers, timeoutArmed, heartbeats, pongTimeouts,
                         requests, calls>>]_vars

\* A dropped frame leaves the state it arrived in: an open connection with a
\* request pending under one id while frames with another id, without id, or
\* unparsable, arrive.
C15_Witness ==
    /\ variant = 2
    /\ ws # 0 /\ readyState[ws] = "OPEN" /\ isConnected
    /\ ENABLED MalformedFrame(ws)
    /\ \E r \in DOMAIN requests, m \in Replies(FrameIds) :
          /\ Pending(r) /\ r \in timeoutArmed /\ requests[r].settles = <<>>
          /\ m.id # 0 /\ Unmatched(m)
          /\ ENABLED MessageEvent(ws, m, 0)

\* C16: a pong cancels the pong timeout: the timeout of a ping that a pong has
\* answered does not fire, and the heartbeat terminates nothing for it.
C16_PongCancelsTimeout ==
    [][\A h \in Conns : ~PongTimeoutFire(h, TRUE)]_vars

\* C17: no heartbeat timer outlives its connection: at most one heartbeat
\* interval is active, and while the bridge is not connected no interval is
\* active and no pong timeout is armed.
C17_NoOrphanHeartbeat ==
    variant = 2 =>
        /\ Cardinality(heartbeats) <= 1
        /\ ~isConnected =>
               /\ heartbeats = {}
               /\ \A h \in Conns : pongTimeouts[h] = 0

\* C18: every open event of a connection created by connectWebSocket sets
\* reconnectAttempts to 0 and adds exactly 1 to totalConnections; no other
\* step lowers reconnectAttempts or changes totalConnections, so the
\* counter compared with the ceiling counts the reconnects scheduled since
\* the last open.
C18_OpenResetsAttempts ==
    [][/\ \A c \in Conns :
              OpenEvent(c) => /\ reconnectAttempts' = 0
                              /\ totalConnections' = totalConnections + 1
       /\ (variant = 2 /\ ~\E c \in Conns : OpenEvent(c)) =>
              /\ totalConnections' = totalConnections
              /\ reconnectAttempts' \in {reconnectAttempts, reconnectAttempts + 1}]_vars

\* A reconnect succeeded: the second connection is open, the attempt counted
\* for it has been reset and both opens have been counted.
C18_Witness ==
    /\ variant = 2
    /\ Len(readyState) = 2 /\ readyState[2] = "OPEN"
    /\ reconnectAttempts = 0
    /\ totalConnections = 2

\* C19: in the second variant, between handlers, the keys of pendingRequests
\* are exactly the ids of the requests accepted by sendMessage whose promise
\* is not settled: every entry belongs to an accepted, unsettled request
\* stored under its own id, and every accepted, unsettled request has its
\* entry.
C19_MapIsUnsettled ==
    variant = 2 =>
        /\ \A id \in DOMAIN pendingRequests :
               LET r == pendingRequests[id] IN
               /\ r \in DOMAIN requests
               /\ requests[r].stored /\ requests[r].id = id
               /\ requests[r].settles = <<>>
        /\ \A r \in DOMAIN requests :
               (requests[r].stored /\ requests[r].settles = <<>>) =>
                   /\ Has(pendingRequests, requests[r].id)
                   /\ pendingRequests[requests[r].id] = r
        /\ DOMAIN pendingRequests =
               { requests[r].id : r \in { q \in DOMAIN requests :
                                            requests[q].stored /\ requests[q].settles = <<>> } }

\* One accepted request has been settled and lost its entry while another
\* accepted request is still unsettled and keeps its entry.
C19_Witness ==
    /\ variant = 2
    /\ \E r, q \in DOMAIN requests :
          /\ requests[r].stored /\ requests[r].settles # <<>>
          /\ requests[q].stored /\ requests[q].settles = <<>>
          /\ requests[r].id # requests[q].id
          /\ ~Has(pendingRequests, requests[r].id)
          /\ Has(pendingRequests, requests[q].id)

\* C20: an attempt of sendMessageWithRetry is settled only by the reply to
\* its own transmission: a frame that answers transmission re settles no
\* request other than re.
C20_OwnReplyOnly ==
    [][\A c \in Conns, m \in Replies(FrameIds), re \in 1..MaxRequests :
          MessageEvent(c, m, re) =>
              \A r \in DOMAIN requests : r # re => requests'[r] = requests[r]]_vars

\* C21: a heartbeat tick or pong timeout armed while one connection was
\* current never touches a later connection: the interval started by the
\* open of connection h pings connection h only, and a pong timeout changes
\* the state of no connection other than the one its ping was sent on.
C21_HeartbeatOwnConnection ==
    [][\A h \in Conns :
          /\ HeartbeatTick(h) => pongTimeouts'[h] = h
          /\ (\E answered \in BOOLEAN : PongTimeoutFire(h, answered)) =>
                 \A c \in DOMAIN readyState :
                     readyState'[c] # readyState[c] => c = pongTimeouts[h]]_vars

====
